---- MODULE Spec2Model ----
(***************************************************************************)
(* Model of the password generator of mkpw (crate password-maker) and of   *)
(* the command line program around it.                                     *)
(*                                                                         *)
(* Spec: a PasswordMaker value is drawn in Init from a bounded family of   *)
(* settings; one call of PasswordMaker::generate is then executed step by  *)
(* step.  Every use of the random number generator is a nondeterministic   *)
(* choice of the drawn value.  A candidate is a string, a password buffer  *)
(* is a sequence of candidates (Vec<String>), indexes are 0-based as in    *)
(* the source.  u32 additions are carried out in two 16-bit limbs so that  *)
(* the sum of the minimum counts keeps its 32-bit width.                   *)
(*                                                                         *)
(* SpecSet: set_classifiers applied to a fresh maker, for command line     *)
(* arguments given as byte strings that are decoded to code points and     *)
(* split into grapheme clusters.                                           *)
(*                                                                         *)
(* SpecMain: main from the parsed arguments to the exit code, with the     *)
(* loop of generate_passwords running the steps of generate once per       *)
(* password.                                                               *)
(***************************************************************************)
EXTENDS Integers, Sequences, FiniteSets, TLC

VARIABLES maker, overflow_checks, pc, candidates, password, overwrite_count,
          numbers, overwrite_chars, classify, overwrite_indexes, result, drew,
          args, cli, passwords, set_result, gp_result, stdout, clipboard,
          stderr, exit_code

\* the state of the command line program around the generator
cli_vars == <<args, cli, passwords, set_result, gp_result, stdout, clipboard,
              stderr, exit_code>>

vars == <<maker, overflow_checks, pc, candidates, password, overwrite_count,
          numbers, overwrite_chars, classify, overwrite_indexes, result, drew,
          cli_vars>>

----------------------------------------------------------------------------
(* Bounds of the settings the model explores *)

MaxLength == 2

MaxMin == 1

MaxOthers == 1

\* 2^31 - 1, a minimum count large enough for sums to leave the u32 range
BigMin == 32767 * 65536 + 65535

----------------------------------------------------------------------------
(* u32 arithmetic *)

Limb == 65536

\* the u32 value of a natural number below 2^31, as two 16-bit limbs
U32(n) == [hi |-> n \div Limb, lo |-> n % Limb]

\* a + b on u32: the wrapped value and whether the addition overflowed
AddU32(a, b) ==
    LET lo == a.lo + b.lo
        hi == a.hi + b.hi + (lo \div Limb)
    IN  [value |-> [hi |-> hi % Limb, lo |-> lo % Limb], overflow |-> hi >= Limb]

\* a < b on u32
LessU32(a, b) == a.hi < b.hi \/ (a.hi = b.hi /\ a.lo < b.lo)

\* Iterator::sum::<u32>() over a sequence of minimum counts, from 0
RECURSIVE SumU32(_)
SumU32(s) ==
    IF s = <<>> THEN [value |-> U32(0), overflow |-> FALSE]
    ELSE \* r is the sum of the elements before the last, computed once
         CHOOSE sum \in
             {LET a == AddU32(r.value, U32(s[Len(s)]))
              IN  [value |-> a.value, overflow |-> r.overflow \/ a.overflow] :
                 r \in {SumU32(SubSeq(s, 1, Len(s) - 1))}} : TRUE

\* std::cmp::min(length, total) where length is small: a natural number
MinU32(length, total) ==
    IF LessU32(total, U32(length)) THEN total.hi * Limb + total.lo ELSE length

----------------------------------------------------------------------------
(* PasswordMaker *)

Classifier(cands, min) == [candidates |-> cands, minimum_count |-> min]

Similar == {"i", "l", "1", "o", "0", "O"}

Whitespace == " "

RECURSIVE RetainContaining(_, _)
\* Retain that also drops an entry made of two of the dropped strings
RetainContaining(s, drop) ==
    IF s = <<>> THEN <<>>
    ELSE IF Head(s) \in drop \cup {a \o b : a \in drop, b \in drop}
         THEN RetainContaining(Tail(s), drop)
         ELSE <<Head(s)>> \o RetainContaining(Tail(s), drop)

RECURSIVE Retain(_, _)
\* Vec::retain: keeps the entries of s that are not in drop, in order
Retain(s, drop) ==
    IF s = <<>> THEN <<>>
    ELSE IF Head(s) \in drop THEN Retain(Tail(s), drop)
         ELSE <<Head(s)>> \o Retain(Tail(s), drop)

RECURSIVE ExtendAll(_)
\* the candidates of a list of classifiers, one after the other
ExtendAll(cs) ==
    IF cs = <<>> THEN <<>> ELSE Head(cs).candidates \o ExtendAll(Tail(cs))

\* Candidates with the merge in the order of the overwrite phase (uppercase first)
CandidatesUppercaseFirst(m) ==
    LET merged == m.uppercase.candidates \o m.lowercase.candidates
                    \o m.number.candidates \o m.symbol.candidates
                    \o ExtendAll(m.others)
        spaced == IF m.include_whitespace_in_candidate
                  THEN Append(merged, Whitespace) ELSE merged
    IN  IF m.exclude_similar THEN Retain(spaced, Similar) ELSE spaced

\* Candidates that appends the space entry whatever the setting is
CandidatesAlwaysSpaced(m) ==
    LET merged == m.lowercase.candidates \o m.uppercase.candidates
                    \o m.number.candidates \o m.symbol.candidates
                    \o ExtendAll(m.others)
        spaced == Append(merged, Whitespace)
    IN  IF m.exclude_similar THEN Retain(spaced, Similar) ELSE spaced

\* PasswordMaker::candidates
Candidates(m) ==
    LET merged == m.lowercase.candidates \o m.uppercase.candidates
                    \o m.number.candidates \o m.symbol.candidates
                    \o ExtendAll(m.others)
        spaced == IF m.include_whitespace_in_candidate
                  THEN Append(merged, Whitespace) ELSE merged
    IN  IF m.exclude_similar THEN Retain(spaced, Similar) ELSE spaced

\* lowercase + uppercase + number + symbol + others.sum(), as u32
TotalMin(m) ==
    LET named == SumU32(<<m.lowercase.minimum_count, m.uppercase.minimum_count,
                          m.number.minimum_count, m.symbol.minimum_count>>)
        other == SumU32([i \in 1..Len(m.others) |-> m.others[i].minimum_count])
        total == AddU32(named.value, other.value)
    IN  [value |-> total.value,
         overflow |-> named.overflow \/ other.overflow \/ total.overflow]

(* Error values: the message templates of the source with their arguments *)
EmptyError(name, index, min) ==
    [kind |-> "EmptyWithMinimum", name |-> name, index |-> index,
     minimum_count |-> min, total_min |-> U32(0), length |-> 0]

TotalError(total, length) ==
    [kind |-> "TotalMinimumGreaterThanLength", name |-> "", index |-> 0,
     minimum_count |-> 0, total_min |-> total, length |-> length]

NoCandidatesError ==
    [kind |-> "NoCandidates", name |-> "", index |-> 0,
     minimum_count |-> 0, total_min |-> U32(0), length |-> 0]

IsEmptyWithMinimum(c) == c.candidates = <<>> /\ 0 < c.minimum_count

\* a check of the named classifiers that starts with lowercase
ValidateOrderLowercaseFirst(m) ==
    << [c |-> m.lowercase, name |-> "Lowercases"],
       [c |-> m.uppercase, name |-> "Uppercases"],
       [c |-> m.number, name |-> "Numbers"],
       [c |-> m.symbol, name |-> "Symbols"] >>

\* the named classifiers in the order validate checks them
ValidateOrder(m) ==
    << [c |-> m.uppercase, name |-> "Uppercases"],
       [c |-> m.lowercase, name |-> "Lowercases"],
       [c |-> m.number, name |-> "Numbers"],
       [c |-> m.symbol, name |-> "Symbols"] >>

\* PasswordMaker::validate; checks is whether the build traps u32 overflow
Validate(m, checks) ==
    LET badOthers == {i \in 1..Len(m.others) : IsEmptyWithMinimum(m.others[i])}
        named == ValidateOrder(m)
        badNamed == {i \in 1..4 : IsEmptyWithMinimum(named[i].c)}
        total == TotalMin(m)
    IN  IF badOthers # {}
        THEN LET i == CHOOSE j \in badOthers : \A k \in badOthers : j <= k
             IN  [tag |-> "Err",
                  error |-> EmptyError("Other characters at index", i - 1,
                                       m.others[i].minimum_count)]
        ELSE IF badNamed # {}
        THEN LET i == CHOOSE j \in badNamed : \A k \in badNamed : j <= k
             IN  [tag |-> "Err",
                  error |-> EmptyError(named[i].name, 0, named[i].c.minimum_count)]
        ELSE IF total.overflow /\ checks
        THEN [tag |-> "Panic", error |-> NoCandidatesError]
        ELSE IF LessU32(U32(m.length), total.value)
        THEN [tag |-> "Err", error |-> TotalError(total.value, m.length)]
        ELSE [tag |-> "Ok", error |-> NoCandidatesError]

\* a loop that serves lowercase before uppercase
OverwriteOrderLowercaseFirst(m) ==
    <<m.lowercase, m.uppercase, m.number, m.symbol>> \o m.others

\* the classifiers in the order the overwrite phase serves them
OverwriteOrder(m) == <<m.uppercase, m.lowercase, m.number, m.symbol>> \o m.others

RECURSIVE Concat(_)
\* [String]::concat
Concat(buf) == IF buf = <<>> THEN "" ELSE Head(buf) \o Concat(Tail(buf))

\* Insert into a set ordered by value (BTreeSet) instead of by insertion
InsertSorted(set, num) ==
    IF \E i \in 1..Len(set) : set[i] = num THEN set
    ELSE SelectSeq(set, LAMBDA x : x < num) \o <<num>>
            \o SelectSeq(set, LAMBDA x : x > num)

\* Insert as a Vec::push would do it: a repeated index is stored again
InsertKeepingDuplicates(set, num) == Append(set, num)

\* IndexSet::insert: appends num unless it is already in the set
Insert(set, num) ==
    IF \E i \in 1..Len(set) : set[i] = num THEN set ELSE Append(set, num)

----------------------------------------------------------------------------
(* The settings explored *)

LowercasePools == {<<>>, <<"a", "l">>}
UppercasePools == {<<>>, <<"O">>}
NumberPools == {<<>>, <<"1">>}
SymbolPools == {<<>>, <<"#">>}

\* minimum counts of uppercase and lowercase: small ones and one huge value
WideMins == (0..MaxMin) \cup {BigMin}
\* minimum counts of number and symbol
UnitMins == {0, 1}

Classifiers(pools, mins) == {Classifier(p, n) : p \in pools, n \in mins}

\* an others classifier: empty with a minimum count, or two equal candidates
OtherClassifiers == {Classifier(<<>>, 1), Classifier(<<"lo", "lo">>, 1)}

OthersLists == UNION {[1..k -> OtherClassifiers] : k \in 0..MaxOthers}

Makers ==
    [length : 0..MaxLength,
     exclude_similar : BOOLEAN,
     include_whitespace_in_candidate : BOOLEAN,
     lowercase : Classifiers(LowercasePools, WideMins),
     uppercase : Classifiers(UppercasePools, WideMins),
     number : Classifiers(NumberPools, UnitMins),
     symbol : Classifiers(SymbolPools, UnitMins),
     others : OthersLists]

NoResult == [tag |-> "None", password |-> "", error |-> NoCandidatesError]
OkResult(s) == [tag |-> "Ok", password |-> s, error |-> NoCandidatesError]
ErrResult(e) == [tag |-> "Err", password |-> "", error |-> e]

\* the generator used as a library: no command line program around it
LibraryUse ==
    /\ args = <<>>
    /\ cli = "library"
    /\ passwords = <<>>
    /\ set_result = NoResult
    /\ gp_result = [tag |-> "None", passwords |-> <<>>, error |-> NoCandidatesError]
    /\ stdout = <<>>
    /\ clipboard = <<>>
    /\ stderr = <<>>
    /\ exit_code = "running"

Init ==
    /\ maker \in Makers
    \* the build profile shows only where a u32 addition overflows
    /\ overflow_checks \in (IF TotalMin(maker).overflow THEN BOOLEAN ELSE {FALSE})
    /\ pc = "generate"
    /\ candidates = <<>>
    /\ password = <<>>
    /\ overwrite_count = 0
    /\ numbers = <<>>
    /\ overwrite_chars = <<>>
    /\ classify = 0
    /\ overwrite_indexes = <<>>
    /\ result = NoResult
    /\ drew = FALSE
    /\ LibraryUse

----------------------------------------------------------------------------
(* PasswordMaker::generate *)

\* GenerateValidate with the random number generator sampled before validation
GenerateValidateAfterSampling ==
    /\ pc = "generate"
    /\ LET v == Validate(maker, overflow_checks)
       IN  /\ pc' = CASE v.tag = "Ok" -> "candidates"
                      [] v.tag = "Err" -> "returned"
                      [] OTHER -> "panicked"
           /\ result' = IF v.tag = "Err" THEN ErrResult(v.error) ELSE result
    /\ drew' = TRUE
    /\ UNCHANGED <<maker, overflow_checks, candidates, password, overwrite_count,
                   numbers, overwrite_chars, classify, overwrite_indexes>>
    /\ UNCHANGED cli_vars

\* GenerateValidate with the empty-candidates check made before validation
GenerateValidateCandidatesFirst ==
    /\ pc = "generate"
    /\ LET v == Validate(maker, overflow_checks)
       IN  IF Candidates(maker) = <<>>
           THEN pc' = "returned" /\ result' = ErrResult(NoCandidatesError)
           ELSE /\ pc' = CASE v.tag = "Ok" -> "candidates"
                           [] v.tag = "Err" -> "returned"
                           [] OTHER -> "panicked"
                /\ result' = IF v.tag = "Err" THEN ErrResult(v.error) ELSE result
    /\ UNCHANGED <<maker, overflow_checks, candidates, password, overwrite_count,
                   numbers, overwrite_chars, classify, overwrite_indexes, drew>>
    /\ UNCHANGED cli_vars

\* GenerateValidate that corrects a length below the total minimum count in
\* the maker instead of returning the error
GenerateValidateCorrecting ==
    /\ pc = "generate"
    /\ LET v == Validate(maker, overflow_checks)
       IN  /\ pc' = CASE v.tag \in {"Ok", "Err"} -> "candidates"
                      [] OTHER -> "panicked"
           /\ maker' = IF v.tag = "Err" /\ v.error.kind = "TotalMinimumGreaterThanLength"
                       THEN [maker EXCEPT !.length = MinU32(BigMin, v.error.total_min)]
                       ELSE maker
    /\ UNCHANGED <<overflow_checks, candidates, password, overwrite_count,
                   numbers, overwrite_chars, classify, overwrite_indexes, result,
                   drew>>
    /\ UNCHANGED cli_vars

\* self.validate()?
GenerateValidate ==
    /\ pc = "generate"
    /\ LET v == Validate(maker, overflow_checks)
       IN  /\ pc' = CASE v.tag = "Ok" -> "candidates"
                      [] v.tag = "Err" -> "returned"
                      [] OTHER -> "panicked"
           /\ result' = IF v.tag = "Err" THEN ErrResult(v.error) ELSE result
    /\ UNCHANGED <<maker, overflow_checks, candidates, password, overwrite_count,
                   numbers, overwrite_chars, classify, overwrite_indexes, drew>>
    /\ UNCHANGED cli_vars

\* GenerateCandidates with the error raised only while length > 0
GenerateCandidatesUnlessZeroLength ==
    /\ pc = "candidates"
    /\ candidates' = Candidates(maker)
    /\ IF candidates' = <<>> /\ maker.length > 0
       THEN pc' = "returned" /\ result' = ErrResult(NoCandidatesError)
       ELSE pc' = "fill" /\ result' = result
    /\ UNCHANGED <<maker, overflow_checks, password, overwrite_count, numbers,
                   overwrite_chars, classify, overwrite_indexes, drew>>
    /\ UNCHANGED cli_vars

\* GenerateCandidates without the is_empty check
GenerateCandidatesUnchecked ==
    /\ pc = "candidates"
    /\ candidates' = Candidates(maker)
    /\ pc' = "fill"
    /\ UNCHANGED <<maker, overflow_checks, password, overwrite_count, numbers,
                   overwrite_chars, classify, overwrite_indexes, result, drew>>
    /\ UNCHANGED cli_vars

\* let candidates = self.candidates(); the is_empty check
GenerateCandidates ==
    /\ pc = "candidates"
    /\ candidates' = Candidates(maker)
    /\ IF candidates' = <<>>
       THEN pc' = "returned" /\ result' = ErrResult(NoCandidatesError)
       ELSE pc' = "fill" /\ result' = result
    /\ UNCHANGED <<maker, overflow_checks, password, overwrite_count, numbers,
                   overwrite_chars, classify, overwrite_indexes, drew>>
    /\ UNCHANGED cli_vars

\* one iteration of (0..self.length).map(|_| candidates.choose(&mut rng))
Fill ==
    /\ pc = "fill"
    /\ Len(password) < maker.length
    /\ IF candidates = <<>>
       THEN pc' = "panicked" /\ UNCHANGED <<password, drew>>
       ELSE /\ \E i \in 1..Len(candidates) :
                      password' = Append(password, candidates[i])
            /\ drew' = TRUE
            /\ pc' = pc
    /\ UNCHANGED <<maker, overflow_checks, candidates, overwrite_count,
                   numbers, overwrite_chars, classify, overwrite_indexes, result>>
    /\ UNCHANGED cli_vars

\* entry of overwrite_to_meet_minimum_count: the number of positions to overwrite
OverwriteBegin ==
    /\ pc = "fill"
    /\ Len(password) = maker.length
    /\ LET total == TotalMin(maker)
       IN  IF total.overflow /\ overflow_checks
           THEN pc' = "panicked" /\ overwrite_count' = overwrite_count
           ELSE pc' = "unique" /\ overwrite_count' = MinU32(maker.length, total.value)
    /\ numbers' = <<>>
    /\ UNCHANGED <<maker, overflow_checks, candidates, password, overwrite_chars,
                   classify, overwrite_indexes, result, drew>>
    /\ UNCHANGED cli_vars

\* an iteration that always takes the lowest index not drawn yet
UniqueDrawLowestFree ==
    /\ pc = "unique"
    /\ Len(numbers) < overwrite_count
    /\ IF Len(password) = 0
       THEN pc' = "panicked" /\ UNCHANGED <<numbers, drew>>
       ELSE /\ \E num \in 0..(Len(password) - 1) :
                  /\ \A k \in 1..Len(numbers) : numbers[k] # num
                  /\ \A low \in 0..(num - 1) : \E k \in 1..Len(numbers) : numbers[k] = low
                  /\ numbers' = Insert(numbers, num)
            /\ drew' = TRUE
            /\ pc' = pc
    /\ UNCHANGED <<maker, overflow_checks, candidates, password, overwrite_count,
                   overwrite_chars, classify, overwrite_indexes, result>>
    /\ UNCHANGED cli_vars

\* one iteration of the loop of unique_random_numbers over 0..password.len()
UniqueDraw ==
    /\ pc = "unique"
    /\ Len(numbers) < overwrite_count
    /\ IF Len(password) = 0
       THEN pc' = "panicked" /\ UNCHANGED <<numbers, drew>>
       ELSE /\ \E num \in 0..(Len(password) - 1) : numbers' = Insert(numbers, num)
            /\ drew' = TRUE
            /\ pc' = pc
    /\ UNCHANGED <<maker, overflow_checks, candidates, password, overwrite_count,
                   overwrite_chars, classify, overwrite_indexes, result>>
    /\ UNCHANGED cli_vars

\* unique_random_numbers returns the drawn indexes in insertion order
\* (numbers.into_iter().collect() consumes the set)
UniqueReturn ==
    /\ pc = "unique"
    /\ Len(numbers) >= overwrite_count
    /\ overwrite_chars' = numbers
    /\ numbers' = <<>>
    /\ classify' = 1
    /\ pc' = "drain"
    /\ UNCHANGED <<maker, overflow_checks, candidates, password, overwrite_count,
                   overwrite_indexes, result, drew>>
    /\ UNCHANGED cli_vars

\* a loop that copies the first minimum_count indexes and leaves them in place
DrainKeepingIndexes ==
    /\ pc = "drain"
    /\ classify <= Len(OverwriteOrder(maker))
    /\ LET n == OverwriteOrder(maker)[classify].minimum_count
       IN  IF n > Len(overwrite_chars)
           THEN pc' = "panicked" /\ UNCHANGED <<overwrite_chars, overwrite_indexes>>
           ELSE /\ overwrite_indexes' = SubSeq(overwrite_chars, 1, n)
                /\ overwrite_chars' = overwrite_chars
                /\ pc' = "replace"
    /\ UNCHANGED <<maker, overflow_checks, candidates, password, overwrite_count,
                   numbers, classify, result, drew>>
    /\ UNCHANGED cli_vars

\* overwrite_chars.drain(0..classify.minimum_count) for the next classifier
Drain ==
    /\ pc = "drain"
    /\ classify <= Len(OverwriteOrder(maker))
    /\ LET n == OverwriteOrder(maker)[classify].minimum_count
       IN  IF n > Len(overwrite_chars)
           THEN pc' = "panicked" /\ UNCHANGED <<overwrite_chars, overwrite_indexes>>
           ELSE /\ overwrite_indexes' = SubSeq(overwrite_chars, 1, n)
                /\ overwrite_chars' = SubSeq(overwrite_chars, n + 1, Len(overwrite_chars))
                /\ pc' = "replace"
    /\ UNCHANGED <<maker, overflow_checks, candidates, password, overwrite_count,
                   numbers, classify, result, drew>>
    /\ UNCHANGED cli_vars

\* an iteration that picks the new entry from the merged candidate pool
ReplaceFromMergedPool ==
    /\ pc = "replace"
    /\ overwrite_indexes # <<>>
    /\ LET index == Head(overwrite_indexes)
           pool == Candidates(maker)
       IN  IF Len(password) <= index \/ pool = <<>>
           THEN pc' = "panicked" /\ UNCHANGED <<password, overwrite_indexes, drew>>
           ELSE /\ \E i \in 1..Len(pool) :
                      password' = [password EXCEPT ![index + 1] = pool[i]]
                /\ overwrite_indexes' = Tail(overwrite_indexes)
                /\ drew' = TRUE
                /\ pc' = pc
    /\ UNCHANGED <<maker, overflow_checks, candidates, overwrite_count, numbers,
                   overwrite_chars, classify, result>>
    /\ UNCHANGED cli_vars

\* an iteration that inserts the new entry in front of the position
ReplaceInserting ==
    /\ pc = "replace"
    /\ overwrite_indexes # <<>>
    /\ LET index == Head(overwrite_indexes)
           pool == OverwriteOrder(maker)[classify].candidates
       IN  IF Len(password) <= index \/ pool = <<>>
           THEN pc' = "panicked" /\ UNCHANGED <<password, overwrite_indexes, drew>>
           ELSE /\ \E i \in 1..Len(pool) :
                      password' = SubSeq(password, 1, index) \o <<pool[i]>>
                                      \o SubSeq(password, index + 1, Len(password))
                /\ overwrite_indexes' = Tail(overwrite_indexes)
                /\ drew' = TRUE
                /\ pc' = pc
    /\ UNCHANGED <<maker, overflow_checks, candidates, overwrite_count, numbers,
                   overwrite_chars, classify, result>>
    /\ UNCHANGED cli_vars

\* an iteration that passes over an index outside the buffer
ReplaceSkippingOutOfRange ==
    /\ pc = "replace"
    /\ overwrite_indexes # <<>>
    /\ LET index == Head(overwrite_indexes)
           pool == OverwriteOrder(maker)[classify].candidates
       IN  IF pool = <<>>
           THEN pc' = "panicked" /\ UNCHANGED <<password, overwrite_indexes, drew>>
           ELSE /\ IF Len(password) <= index
                   THEN password' = password
                   ELSE \E i \in 1..Len(pool) :
                            password' = [password EXCEPT ![index + 1] = pool[i]]
                /\ overwrite_indexes' = Tail(overwrite_indexes)
                /\ drew' = TRUE
                /\ pc' = pc
    /\ UNCHANGED <<maker, overflow_checks, candidates, overwrite_count, numbers,
                   overwrite_chars, classify, result>>
    /\ UNCHANGED cli_vars

\* one iteration of the loop of replace_characters
Replace ==
    /\ pc = "replace"
    /\ overwrite_indexes # <<>>
    /\ LET index == Head(overwrite_indexes)
           pool == OverwriteOrder(maker)[classify].candidates
       IN  IF Len(password) <= index \/ pool = <<>>
           THEN pc' = "panicked" /\ UNCHANGED <<password, overwrite_indexes, drew>>
           ELSE /\ \E i \in 1..Len(pool) :
                      password' = [password EXCEPT ![index + 1] = pool[i]]
                /\ overwrite_indexes' = Tail(overwrite_indexes)
                /\ drew' = TRUE
                /\ pc' = pc
    /\ UNCHANGED <<maker, overflow_checks, candidates, overwrite_count, numbers,
                   overwrite_chars, classify, result>>
    /\ UNCHANGED cli_vars

\* replace_characters returns; the loop over the classifiers moves on
ReplaceReturn ==
    /\ pc = "replace"
    /\ overwrite_indexes = <<>>
    /\ classify' = classify + 1
    /\ pc' = "drain"
    /\ UNCHANGED <<maker, overflow_checks, candidates, password, overwrite_count,
                   numbers, overwrite_chars, overwrite_indexes, result, drew>>
    /\ UNCHANGED cli_vars

\* Ok(password.concat())
GenerateReturn ==
    /\ pc = "drain"
    /\ classify > Len(OverwriteOrder(maker))
    /\ result' = OkResult(Concat(password))
    /\ pc' = "returned"
    /\ UNCHANGED <<maker, overflow_checks, candidates, password, overwrite_count,
                   numbers, overwrite_chars, classify, overwrite_indexes, drew>>
    /\ UNCHANGED cli_vars

Next ==
    \/ GenerateValidate
    \/ GenerateCandidates
    \/ Fill
    \/ OverwriteBegin
    \/ UniqueDraw
    \/ UniqueReturn
    \/ Drain
    \/ Replace
    \/ ReplaceReturn
    \/ GenerateReturn

Spec == Init /\ [][Next]_vars

\* makers for the calls whose end is checked: every pool but number's is
\* non-empty, the minimum counts go up to 2^31 - 1
FairMakers ==
    [length : 0..MaxLength,
     exclude_similar : {FALSE},
     include_whitespace_in_candidate : {FALSE},
     lowercase : Classifiers({<<"a", "l">>}, WideMins),
     uppercase : Classifiers({<<"O">>}, WideMins),
     number : Classifiers(NumberPools, {0}),
     symbol : Classifiers({<<"#">>}, UnitMins),
     others : UNION {[1..k -> {Classifier(<<"lo", "lo">>, 1)}] : k \in 0..MaxOthers}]

InitFair == Init /\ maker \in FairMakers

\* generate with a scheduler that keeps running the call and a random number
\* generator that does not avoid the indexes not drawn yet for ever
FairSpec ==
    /\ InitFair
    /\ [][Next]_vars
    /\ WF_vars(Next)
    /\ WF_vars(UniqueDraw /\ numbers' # numbers)

----------------------------------------------------------------------------
(* Text: bytes, code points, grapheme clusters *)

\* the printable ASCII characters, code points 32 to 126 (the grave accent,
\* which a TLA+ string cannot hold, by its escape)
Ascii ==
    << " ", "!", "\"", "#", "$", "%", "&", "'", "(", ")", "*", "+",
       ",", "-", ".", "/", "0", "1", "2", "3", "4", "5", "6", "7",
       "8", "9", ":", ";", "<", "=", ">", "?", "@", "A", "B", "C",
       "D", "E", "F", "G", "H", "I", "J", "K", "L", "M", "N", "O",
       "P", "Q", "R", "S", "T", "U", "V", "W", "X", "Y", "Z", "[",
       "\\", "]", "^", "_", "\\u{60}", "a", "b", "c", "d", "e", "f", "g",
       "h", "i", "j", "k", "l", "m", "n", "o", "p", "q", "r", "s",
       "t", "u", "v", "w", "x", "y", "z", "{", "|", "}", "~" >>

\* the string of one code point; those outside ASCII by their escape
CharString(cp) ==
    CASE cp \in 32..126 -> Ascii[cp - 31]
      [] cp = 771 -> "\\u{303}"
      [] cp = 65420 -> "\\u{ff8c}"
      [] cp = 65533 -> "\\u{fffd}"

RECURSIVE ClusterString(_)
\* the string of a sequence of code points
ClusterString(cps) ==
    IF cps = <<>> THEN "" ELSE CharString(Head(cps)) \o ClusterString(Tail(cps))

RECURSIVE DecodeUtf8(_)
\* UTF-8 decoding with replacement of malformed input by U+FFFD, for
\* sequences of one and two bytes
DecodeUtf8(text) ==
    IF text = <<>> THEN <<>>
    ELSE IF Head(text) < 128 THEN <<Head(text)>> \o DecodeUtf8(Tail(text))
    ELSE IF Head(text) \in 194..223 /\ Len(text) >= 2 /\ text[2] \in 128..191
         THEN <<(Head(text) - 192) * 64 + (text[2] - 128)>>
                 \o DecodeUtf8(SubSeq(text, 3, Len(text)))
         ELSE <<65533>> \o DecodeUtf8(Tail(text))

RECURSIVE DecodeShiftJis(_)
\* Shift_JIS decoding with replacement, for ASCII and half-width katakana
DecodeShiftJis(text) ==
    IF text = <<>> THEN <<>>
    ELSE (IF Head(text) < 128 THEN <<Head(text)>>
          ELSE IF Head(text) \in 161..223 THEN <<65377 + (Head(text) - 161)>>
          ELSE <<65533>>) \o DecodeShiftJis(Tail(text))

\* Encoding::for_label_no_replacement: the encoding a label names, if any
ForLabel(label) ==
    CASE label \in {"utf-8", "utf8"} -> "UTF-8"
      [] label \in {"shift_jis", "sjis"} -> "Shift_JIS"
      [] OTHER -> "None"

UnsupportedEncodingError(label) ==
    [kind |-> "UnsupportedEncoding", name |-> label, index |-> 0,
     minimum_count |-> 0, total_min |-> U32(0), length |-> 0]

MalformedError(label) ==
    [kind |-> "Malformed", name |-> label, index |-> 0,
     minimum_count |-> 0, total_min |-> U32(0), length |-> 0]

\* decode that gives an error for malformed input instead of replacing it
DecodeStrict(text, encoding) ==
    LET e == ForLabel(encoding)
        decoded == IF e = "UTF-8" THEN DecodeUtf8(text) ELSE DecodeShiftJis(text)
    IN  IF e = "None"
        THEN [tag |-> "Err", error |-> UnsupportedEncodingError(encoding), text |-> <<>>]
        ELSE IF \E i \in 1..Len(decoded) : decoded[i] = 65533
        THEN [tag |-> "Err", error |-> MalformedError(encoding), text |-> <<>>]
        ELSE [tag |-> "Ok", error |-> NoCandidatesError, text |-> decoded]

\* encoding::decode: the text as a sequence of code points
Decode(text, encoding) ==
    LET e == ForLabel(encoding)
    IN  IF e = "None"
        THEN [tag |-> "Err", error |-> UnsupportedEncodingError(encoding), text |-> <<>>]
        ELSE [tag |-> "Ok", error |-> NoCandidatesError,
              text |-> IF e = "UTF-8" THEN DecodeUtf8(text) ELSE DecodeShiftJis(text)]

\* the code points of the model that extend the cluster before them (U+0303)
Extend == {771}

RECURSIVE Clusters(_)
\* the extended grapheme clusters of a text, each a sequence of code points
Clusters(text) ==
    IF text = <<>> THEN <<>>
    ELSE LET init == Clusters(SubSeq(text, 1, Len(text) - 1))
             last == text[Len(text)]
         IN  IF last \in Extend /\ init # <<>>
             THEN [init EXCEPT ![Len(init)] = Append(@, last)]
             ELSE Append(init, <<last>>)

\* text.graphemes(true).map(|s| s.to_string()).collect()
Graphemes(text) == [i \in 1..Len(Clusters(text)) |-> ClusterString(Clusters(text)[i])]

----------------------------------------------------------------------------
(* The command line program: arguments and set_classifiers *)

None == [tag |-> "None", value |-> <<>>]
\* Option::None of --completion, whose value is the name of a shell
NoShell == [tag |-> "None", value |-> ""]
Some(v) == [tag |-> "Some", value |-> v]

\* Option::unwrap_or_default for an optional list
UnwrapOrDefault(opt) == IF opt.tag = "None" THEN <<>> ELSE opt.value

\* impl Default for Cli; candidates are byte strings (OsString)
CliDefault ==
    [length |-> 16,
     count |-> 1,
     uppercase_candidates |-> [i \in 1..26 |-> 64 + i],
     uppercase_minimum_count |-> 1,
     lowercase_candidates |-> [i \in 1..26 |-> 96 + i],
     lowercase_minimum_count |-> 1,
     number_candidates |-> [i \in 1..10 |-> 47 + i],
     number_minimum_count |-> 1,
     symbol_candidates |-> [i \in 1..15 |-> 32 + i] \o [i \in 1..7 |-> 57 + i]
                              \o [i \in 1..6 |-> 90 + i] \o [i \in 1..4 |-> 122 + i],
     symbol_minimum_count |-> 1,
     other_candidates |-> None,
     other_minimum_count |-> None,
     null |-> FALSE,
     clipboard |-> FALSE,
     encoding |-> "utf-8",
     completion |-> NoShell]

\* impl Default for PasswordMaker
DefaultMaker ==
    [length |-> 16,
     exclude_similar |-> FALSE,
     include_whitespace_in_candidate |-> FALSE,
     lowercase |-> Classifier([i \in 1..26 |-> CharString(96 + i)], 1),
     uppercase |-> Classifier([i \in 1..26 |-> CharString(64 + i)], 1),
     number |-> Classifier([i \in 1..10 |-> CharString(47 + i)], 1),
     symbol |-> Classifier(Graphemes(CliDefault.symbol_candidates), 1),
     others |-> <<>>]

\* Ok(()) of a function that returns Result<(), String>
OkUnit == [tag |-> "Ok", password |-> "", error |-> NoCandidatesError]

\* set_candidates_and_minimum_count that keeps the requested minimum count
SetCandidatesKeepingMinimum(cands, encoding, minimum_count) ==
    LET d == Decode(cands, encoding)
    IN  [tag |-> d.tag, error |-> d.error,
         classifier |-> Classifier(Graphemes(d.text), minimum_count)]

\* set_candidates_and_minimum_count, local to set_classifiers
SetCandidatesAndMinimumCount(cands, encoding, minimum_count) ==
    LET d == Decode(cands, encoding)
        decoded == Graphemes(d.text)
        min_count == IF decoded = <<>> THEN 0 ELSE minimum_count
    IN  [tag |-> d.tag, error |-> d.error,
         classifier |-> (IF d.tag = "Ok" THEN Classifier(decoded, min_count)
                         ELSE Classifier(<<>>, 0))]

RECURSIVE DecodeAll(_, _)
\* iter().map(decode).collect::<Result<Vec<String>, String>>(): the first error
DecodeAll(list, encoding) ==
    IF list = <<>> THEN [tag |-> "Ok", error |-> NoCandidatesError, texts |-> <<>>]
    ELSE LET d == Decode(Head(list), encoding)
             rest == DecodeAll(Tail(list), encoding)
         IN  IF d.tag = "Err" THEN [tag |-> "Err", error |-> d.error, texts |-> <<>>]
             ELSE IF rest.tag = "Err" THEN rest
             ELSE [tag |-> "Ok", error |-> d.error, texts |-> <<d.text>> \o rest.texts]

\* while s.len() < n { s.push(x) }
PushUntil(s, n, x) ==
    IF Len(s) < n THEN s \o [i \in 1..(n - Len(s)) |-> x] ELSE s

\* ZipOthers without the padding: zip stops at the shorter list
ZipOthersShortest(other_candidates, other_minimum_count) ==
    LET n == IF Len(other_candidates) < Len(other_minimum_count)
             THEN Len(other_candidates) ELSE Len(other_minimum_count)
    IN  [i \in 1..n |->
            Classifier(Graphemes(other_candidates[i]), other_minimum_count[i])]

\* the two lists padded to the same length, zipped into classifiers
ZipOthers(other_candidates, other_minimum_count) ==
    LET cands == PushUntil(other_candidates, Len(other_minimum_count), <<>>)
        mins == PushUntil(other_minimum_count, Len(cands), 0)
    IN  [i \in 1..Len(cands) |-> Classifier(Graphemes(cands[i]), mins[i])]

\* set_classifiers: the maker after the call and the value returned
SetClassifiers(m, a) ==
    LET up == SetCandidatesAndMinimumCount(a.uppercase_candidates, a.encoding,
                                           a.uppercase_minimum_count)
        m1 == [m EXCEPT !.uppercase = up.classifier]
        lo == SetCandidatesAndMinimumCount(a.lowercase_candidates, a.encoding,
                                           a.lowercase_minimum_count)
        m2 == [m1 EXCEPT !.lowercase = lo.classifier]
        nu == SetCandidatesAndMinimumCount(a.number_candidates, a.encoding,
                                           a.number_minimum_count)
        m3 == [m2 EXCEPT !.number = nu.classifier]
        sy == SetCandidatesAndMinimumCount(a.symbol_candidates, a.encoding,
                                           a.symbol_minimum_count)
        m4 == [m3 EXCEPT !.symbol = sy.classifier]
        oc == DecodeAll(UnwrapOrDefault(a.other_candidates), a.encoding)
        om == UnwrapOrDefault(a.other_minimum_count)
        m5 == [m4 EXCEPT !.others = ZipOthers(oc.texts, om)]
    IN  IF up.tag = "Err" THEN [maker |-> m, result |-> ErrResult(up.error)]
        ELSE IF lo.tag = "Err" THEN [maker |-> m1, result |-> ErrResult(lo.error)]
        ELSE IF nu.tag = "Err" THEN [maker |-> m2, result |-> ErrResult(nu.error)]
        ELSE IF sy.tag = "Err" THEN [maker |-> m3, result |-> ErrResult(sy.error)]
        ELSE IF oc.tag = "Err" THEN [maker |-> m4, result |-> ErrResult(oc.error)]
        ELSE [maker |-> m5, result |-> OkUnit]

----------------------------------------------------------------------------
(* set_classifiers applied to a fresh maker *)

\* candidates given on the command line, as bytes: O; a, l, U+0303 in UTF-8;
\* 1 and a stray trail byte; #
UppercaseArgs == {<<>>, <<79>>}
LowercaseArgs == {<<>>, <<97, 108, 204, 131>>}
NumberArgs == {<<>>, <<49, 131>>}
SymbolArgs == {<<>>, <<35>>}

MinimumArgs == {0, 2}

\* --other-candidates absent, given once, given twice (the first one empty)
OtherCandidatesArgs ==
    {None, Some(<< <<111, 204, 131>> >>), Some(<< <<>>, <<35, 35>> >>)}

\* --other-minimum-count absent, given once, given three times
OtherMinimumArgs == {None, Some(<<3>>), Some(<<1, 2, 3>>)}

EncodingArgs == {"utf-8", "shift_jis", "invalid"}

SetArgs ==
    {[CliDefault EXCEPT !.uppercase_candidates = uc, !.uppercase_minimum_count = um,
                        !.lowercase_candidates = lc, !.lowercase_minimum_count = lm,
                        !.number_candidates = nc, !.number_minimum_count = nm,
                        !.symbol_candidates = sc, !.symbol_minimum_count = sm,
                        !.other_candidates = oc, !.other_minimum_count = om,
                        !.encoding = e] :
        uc \in UppercaseArgs, um \in MinimumArgs, lc \in LowercaseArgs,
        lm \in MinimumArgs, nc \in NumberArgs, nm \in MinimumArgs,
        sc \in SymbolArgs, sm \in MinimumArgs, oc \in OtherCandidatesArgs,
        om \in OtherMinimumArgs, e \in EncodingArgs}

NoPasswords == [tag |-> "None", passwords |-> <<>>, error |-> NoCandidatesError]
OkPasswords(list) == [tag |-> "Ok", passwords |-> list, error |-> NoCandidatesError]
ErrPasswords(e) == [tag |-> "Err", passwords |-> <<>>, error |-> e]

\* no call of generate is under way
GenerateIdle ==
    /\ pc = "idle"
    /\ candidates = <<>>
    /\ password = <<>>
    /\ overwrite_count = 0
    /\ numbers = <<>>
    /\ overwrite_chars = <<>>
    /\ classify = 0
    /\ overwrite_indexes = <<>>
    /\ result = NoResult
    /\ drew = FALSE

\* nothing was returned or written yet
NoOutput ==
    /\ passwords = <<>>
    /\ set_result = NoResult
    /\ gp_result = NoPasswords
    /\ stdout = <<>>
    /\ clipboard = <<>>
    /\ stderr = <<>>
    /\ exit_code = "running"

\* PasswordMaker { length: args.length, ..PasswordMaker::default() }
NewMaker(a) == [DefaultMaker EXCEPT !.length = a.length]

InitSet ==
    /\ args \in SetArgs
    /\ maker = NewMaker(args)
    /\ overflow_checks = FALSE
    /\ cli = "set_classifiers"
    /\ GenerateIdle
    /\ NoOutput

\* set_classifiers(&mut maker, args)
SetClassifiersCall ==
    /\ cli = "set_classifiers"
    /\ LET r == SetClassifiers(maker, args)
       IN  maker' = r.maker /\ set_result' = r.result
    /\ cli' = "set_returned"
    /\ UNCHANGED <<overflow_checks, pc, candidates, password, overwrite_count,
                   numbers, overwrite_chars, classify, overwrite_indexes, result,
                   drew, args, passwords, gp_result, stdout, clipboard, stderr,
                   exit_code>>

NextSet == SetClassifiersCall

SpecSet == InitSet /\ [][NextSet]_vars

----------------------------------------------------------------------------
(* The command line program: main *)

MaxCount == 2

\* a run whose minimum counts sum to 2^32
OverflowArgs ==
    [CliDefault EXCEPT !.length = 0,
                       !.uppercase_candidates = <<79>>,
                       !.uppercase_minimum_count = BigMin,
                       !.lowercase_candidates = <<97>>,
                       !.lowercase_minimum_count = BigMin,
                       !.number_candidates = <<49>>,
                       !.symbol_candidates = <<35>>]

\* the command lines explored: O and a as candidates, no numbers and symbols
MainArgs ==
    {[CliDefault EXCEPT !.length = n, !.count = c,
                        !.uppercase_candidates = <<79>>,
                        !.lowercase_candidates = <<97>>,
                        !.lowercase_minimum_count = lm,
                        !.number_candidates = <<>>,
                        !.symbol_candidates = <<>>,
                        !.null = z, !.clipboard = cb, !.encoding = e,
                        !.completion = sh] :
        n \in {0, 2}, c \in 0..MaxCount, lm \in {0, 1}, z \in BOOLEAN,
        cb \in BOOLEAN, e \in {"utf-8", "invalid"}, sh \in {NoShell, Some("zsh")}}
    \cup {OverflowArgs}

\* Cli::parse() has returned args
InitMain ==
    /\ args \in MainArgs
    /\ overflow_checks \in (IF args = OverflowArgs THEN BOOLEAN ELSE {FALSE})
    /\ maker = DefaultMaker
    /\ cli = "main"
    /\ GenerateIdle
    /\ NoOutput

\* the variables of a call of generate
generate_vars == <<pc, candidates, password, overwrite_count, numbers,
                   overwrite_chars, classify, overwrite_indexes, result, drew>>

\* PrintCompletions that sends the script to the clipboard under --clipboard
PrintCompletionsToClipboard ==
    /\ cli = "main"
    /\ args.completion # NoShell
    /\ IF args.clipboard
       THEN /\ clipboard' = Append(clipboard, [completion |-> args.completion.value])
            /\ stdout' = stdout
       ELSE /\ stdout' = Append(stdout, [completion |-> args.completion.value])
            /\ clipboard' = clipboard
    /\ exit_code' = "SUCCESS"
    /\ cli' = "exited"
    /\ UNCHANGED <<maker, overflow_checks, generate_vars, args, passwords,
                   set_result, gp_result, stderr>>

\* if let Some(shell) = args.completion: print_completions, ExitCode::SUCCESS
PrintCompletions ==
    /\ cli = "main"
    /\ args.completion # NoShell
    /\ stdout' = Append(stdout, [completion |-> args.completion.value])
    /\ exit_code' = "SUCCESS"
    /\ cli' = "exited"
    /\ UNCHANGED <<maker, overflow_checks, generate_vars, args, passwords,
                   set_result, gp_result, clipboard, stderr>>

\* password(args) calls generate_passwords: the list and the maker are made
GeneratePasswordsBegin ==
    /\ cli = "main"
    /\ args.completion = NoShell
    /\ passwords' = <<>>
    /\ maker' = NewMaker(args)
    /\ cli' = "set_classifiers"
    /\ UNCHANGED <<overflow_checks, generate_vars, args, set_result, gp_result,
                   stdout, clipboard, stderr, exit_code>>

\* the ? after set_classifiers(&mut maker, args)
SetClassifiersReturned ==
    /\ cli = "set_returned"
    /\ IF set_result.tag = "Err"
       THEN gp_result' = ErrPasswords(set_result.error) /\ cli' = "gp_returned"
       ELSE gp_result' = gp_result /\ cli' = "loop"
    /\ UNCHANGED <<maker, overflow_checks, generate_vars, args, passwords,
                   set_result, stdout, clipboard, stderr, exit_code>>

\* for _ in 0..args.count: the next call of maker.generate()
LoopGenerate ==
    /\ cli = "loop"
    /\ Len(passwords) < args.count
    /\ pc' = "generate"
    /\ candidates' = <<>>
    /\ password' = <<>>
    /\ overwrite_count' = 0
    /\ numbers' = <<>>
    /\ overwrite_chars' = <<>>
    /\ classify' = 0
    /\ overwrite_indexes' = <<>>
    /\ result' = NoResult
    /\ drew' = FALSE
    /\ cli' = "generating"
    /\ UNCHANGED <<maker, overflow_checks, args, passwords, set_result,
                   gp_result, stdout, clipboard, stderr, exit_code>>

\* GenerateReturned that answers an error of generate by returning the
\* passwords made so far
GenerateReturnedPartial ==
    /\ cli = "generating"
    /\ pc = "returned"
    /\ IF result.tag = "Ok"
       THEN /\ passwords' = Append(passwords, result.password)
            /\ gp_result' = gp_result
            /\ cli' = "loop"
       ELSE /\ passwords' = passwords
            /\ gp_result' = OkPasswords(passwords)
            /\ cli' = "gp_returned"
    /\ pc' = "idle"
    /\ UNCHANGED <<maker, overflow_checks, candidates, password, overwrite_count,
                   numbers, overwrite_chars, classify, overwrite_indexes, result,
                   drew, args, set_result, stdout, clipboard, stderr, exit_code>>

\* let password = maker.generate()?; passwords.push(password)
GenerateReturned ==
    /\ cli = "generating"
    /\ pc = "returned"
    /\ IF result.tag = "Ok"
       THEN /\ passwords' = Append(passwords, result.password)
            /\ gp_result' = gp_result
            /\ cli' = "loop"
       ELSE /\ passwords' = passwords
            /\ gp_result' = ErrPasswords(result.error)
            /\ cli' = "gp_returned"
    /\ pc' = "idle"
    /\ UNCHANGED <<maker, overflow_checks, candidates, password, overwrite_count,
                   numbers, overwrite_chars, classify, overwrite_indexes, result,
                   drew, args, set_result, stdout, clipboard, stderr, exit_code>>

\* a panic in generate unwinds through main: the process ends abnormally
GeneratePanicked ==
    /\ cli = "generating"
    /\ pc = "panicked"
    /\ pc' = "idle"
    /\ stderr' = Append(stderr, [panic |-> "generate"])
    /\ exit_code' = "panic"
    /\ cli' = "exited"
    /\ UNCHANGED <<maker, overflow_checks, candidates, password, overwrite_count,
                   numbers, overwrite_chars, classify, overwrite_indexes, result,
                   drew, args, passwords, set_result, gp_result, stdout, clipboard>>

\* the loop is over: Ok(passwords)
GeneratePasswordsReturn ==
    /\ cli = "loop"
    /\ Len(passwords) >= args.count
    /\ gp_result' = OkPasswords(passwords)
    /\ cli' = "gp_returned"
    /\ UNCHANGED <<maker, overflow_checks, generate_vars, args, passwords,
                   set_result, stdout, clipboard, stderr, exit_code>>

RECURSIVE Join(_, _)
\* passwords.join(separater)
Join(list, separater) ==
    IF list = <<>> THEN ""
    ELSE IF Len(list) = 1 THEN Head(list)
    ELSE Head(list) \o separater \o Join(Tail(list), separater)

\* format_passwords; the separators are written by their escapes
FormatPasswords(list, null_separator) ==
    LET separater == IF null_separator THEN "\\0" ELSE "\\n"
    IN  Join(list, separater) \o separater

\* encoding::encode: the bytes of text in the encoding the label names
Encode(text, encoding) ==
    LET e == ForLabel(encoding)
    IN  IF e = "None"
        THEN [tag |-> "Err", error |-> UnsupportedEncodingError(encoding),
              bytes |-> [encoding |-> e, text |-> ""]]
        ELSE [tag |-> "Ok", error |-> NoCandidatesError,
              bytes |-> [encoding |-> e, text |-> text]]

\* the error of a sink (clipboard, standard output) that does not take the text
SinkError(sink) ==
    [kind |-> "Sink", name |-> sink, index |-> 0,
     minimum_count |-> 0, total_min |-> U32(0), length |-> 0]

\* generate_passwords returned Err: password returns it, main prints it
PasswordFailed ==
    /\ cli = "gp_returned"
    /\ gp_result.tag = "Err"
    /\ stderr' = Append(stderr, gp_result.error)
    /\ exit_code' = "FAILURE"
    /\ cli' = "exited"
    /\ UNCHANGED <<maker, overflow_checks, generate_vars, args, passwords,
                   set_result, gp_result, stdout, clipboard>>

\* format_passwords and output_passwords, then main's exit code; whether the
\* clipboard or standard output takes the text is up to the environment
OutputPasswords ==
    /\ cli = "gp_returned"
    /\ gp_result.tag = "Ok"
    /\ LET output_string == FormatPasswords(gp_result.passwords, args.null)
           encoded_string == Encode(output_string, args.encoding)
       IN  \E taken \in BOOLEAN :
              IF args.clipboard
              THEN IF taken
                   THEN /\ clipboard' = Append(clipboard, output_string)
                        /\ exit_code' = "SUCCESS"
                        /\ UNCHANGED <<stdout, stderr>>
                   ELSE /\ stderr' = Append(stderr, SinkError("clipboard"))
                        /\ exit_code' = "FAILURE"
                        /\ UNCHANGED <<stdout, clipboard>>
              ELSE IF encoded_string.tag = "Err"
                   THEN /\ stderr' = Append(stderr, encoded_string.error)
                        /\ exit_code' = "FAILURE"
                        /\ UNCHANGED <<stdout, clipboard>>
                   ELSE IF taken
                   THEN /\ stdout' = Append(stdout, encoded_string.bytes)
                        /\ exit_code' = "SUCCESS"
                        /\ UNCHANGED <<clipboard, stderr>>
                   ELSE /\ stderr' = Append(stderr, SinkError("stdout"))
                        /\ exit_code' = "FAILURE"
                        /\ UNCHANGED <<stdout, clipboard>>
    /\ cli' = "exited"
    /\ UNCHANGED <<maker, overflow_checks, generate_vars, args, passwords,
                   set_result, gp_result>>

NextMain ==
    \/ PrintCompletions
    \/ GeneratePasswordsBegin
    \/ SetClassifiersCall
    \/ SetClassifiersReturned
    \/ LoopGenerate
    \/ GenerateValidate
    \/ GenerateCandidates
    \/ Fill
    \/ OverwriteBegin
    \/ UniqueDraw
    \/ UniqueReturn
    \/ Drain
    \/ Replace
    \/ ReplaceReturn
    \/ GenerateReturn
    \/ GenerateReturned
    \/ GeneratePanicked
    \/ GeneratePasswordsReturn
    \/ PasswordFailed
    \/ OutputPasswords

SpecMain == InitMain /\ [][NextMain]_vars

----------------------------------------------------------------------------
(* overwrite_to_meet_minimum_count called on a blank buffer *)

\* vec![" ".to_string(); n]: a buffer of entries that are in no pool
BlankBuffer(n) == [i \in 1..n |-> Whitespace]

\* the pool of the others classifier declared at place i (1-based); the pools
\* of a maker share no entry, so an entry of the buffer names its writer
OtherPoolAt(i) ==
    IF i = 1 THEN <<"lo", "lo">> ELSE IF i = 2 THEN <<"e\\u{301}">> ELSE <<"5", "7">>

OverwriteOtherPools == {OtherPoolAt(i) : i \in 1..3}

\* the makers of the direct calls: validate is not called, so the minimum
\* counts may sum to more than length
OverwriteMakers ==
    [length : 0..MaxLength,
     exclude_similar : {FALSE},
     include_whitespace_in_candidate : {FALSE},
     lowercase : Classifiers({<<"a", "l">>}, 0..MaxMin),
     uppercase : Classifiers({<<"O">>}, 0..MaxMin),
     number : Classifiers(NumberPools, UnitMins),
     symbol : Classifiers({<<"#">>}, UnitMins),
     others : UNION {{o \in [1..k -> Classifiers(OverwriteOtherPools, UnitMins)] :
                            \A i \in 1..k : o[i].candidates = OtherPoolAt(i)} :
                        k \in 0..MaxOthers}]

InitOverwrite ==
    /\ maker \in OverwriteMakers
    /\ overflow_checks = FALSE
    /\ pc = "fill"
    /\ candidates = <<>>
    /\ password = BlankBuffer(maker.length)
    /\ overwrite_count = 0
    /\ numbers = <<>>
    /\ overwrite_chars = <<>>
    /\ classify = 0
    /\ overwrite_indexes = <<>>
    /\ result = NoResult
    /\ drew = FALSE
    /\ LibraryUse

\* the loop over the classifiers is over: overwrite_to_meet_minimum_count returns
OverwriteReturn ==
    /\ pc = "drain"
    /\ classify > Len(OverwriteOrder(maker))
    /\ pc' = "overwritten"
    /\ UNCHANGED <<maker, overflow_checks, candidates, password, overwrite_count,
                   numbers, overwrite_chars, classify, overwrite_indexes, result,
                   drew>>
    /\ UNCHANGED cli_vars

NextOverwrite ==
    \/ OverwriteBegin
    \/ UniqueDraw
    \/ UniqueReturn
    \/ Drain
    \/ Replace
    \/ ReplaceReturn
    \/ OverwriteReturn

SpecOverwrite == InitOverwrite /\ [][NextOverwrite]_vars

----------------------------------------------------------------------------
(* replace_characters called on its own *)

\* the longest list of indexes of a call
MaxIndexes == 2

\* the entries of the buffer before the call, each one in no pool
Markers == <<"\\u{3bc}", "\\u{65e5}", "\\u{1f980}", "\\u{b0}", "\\u{3a9}">>

MarkedBuffer(n) == [i \in 1..n |-> Markers[i]]

\* the lists of at most MaxIndexes indexes, from 0 to n (n is outside a
\* buffer of n entries)
IndexLists(n) == UNION {[1..k -> 0..n] : k \in 0..MaxIndexes}

\* the minimum counts play no part in replace_characters
ReplaceMakers ==
    {m \in OverwriteMakers :
        /\ m.length = 0
        /\ \A k \in 1..Len(OverwriteOrder(m)) : OverwriteOrder(m)[k].minimum_count = 0}

InitReplace ==
    /\ maker \in ReplaceMakers
    /\ overflow_checks = FALSE
    /\ pc = "replace"
    /\ candidates = <<>>
    /\ \E n \in 0..MaxLength :
          /\ password = MarkedBuffer(n)
          /\ overwrite_indexes \in IndexLists(n)
    /\ overwrite_count = 0
    /\ numbers = <<>>
    /\ overwrite_chars = <<>>
    /\ classify \in 1..Len(OverwriteOrder(maker))
    /\ result = NoResult
    /\ drew = FALSE
    /\ LibraryUse

\* the loop over the indexes is over: replace_characters returns
ReplaceCharactersReturn ==
    /\ pc = "replace"
    /\ overwrite_indexes = <<>>
    /\ pc' = "replaced"
    /\ UNCHANGED <<maker, overflow_checks, candidates, password, overwrite_count,
                   numbers, overwrite_chars, classify, overwrite_indexes, result,
                   drew>>
    /\ UNCHANGED cli_vars

NextReplace ==
    \/ Replace
    \/ ReplaceCharactersReturn

SpecReplace == InitReplace /\ [][NextReplace]_vars

----------------------------------------------------------------------------
(* validate called on its own *)

\* the longest others list of a validated maker
MaxValidateOthers == 2

\* makers that may break several rules of validate at once
ValidateMakers ==
    [length : {0, 1},
     exclude_similar : {FALSE},
     include_whitespace_in_candidate : {FALSE},
     lowercase : Classifiers(LowercasePools, WideMins),
     uppercase : Classifiers(UppercasePools, WideMins),
     number : Classifiers(NumberPools, UnitMins),
     symbol : Classifiers(SymbolPools, UnitMins),
     others : UNION {[1..k -> Classifiers({<<>>, <<"lo", "lo">>}, UnitMins)] :
                        k \in 0..MaxValidateOthers}]

InitValidate ==
    /\ maker \in ValidateMakers
    /\ overflow_checks \in (IF TotalMin(maker).overflow THEN BOOLEAN ELSE {FALSE})
    /\ pc = "validate"
    /\ candidates = <<>>
    /\ password = <<>>
    /\ overwrite_count = 0
    /\ numbers = <<>>
    /\ overwrite_chars = <<>>
    /\ classify = 0
    /\ overwrite_indexes = <<>>
    /\ result = NoResult
    /\ drew = FALSE
    /\ LibraryUse

\* self.validate(): Ok(()), Err(message) or a panic of the u32 addition
ValidateCall ==
    /\ pc = "validate"
    /\ LET v == Validate(maker, overflow_checks)
       IN  /\ pc' = IF v.tag \in {"Ok", "Err"} THEN "validated" ELSE "panicked"
           /\ result' = CASE v.tag = "Ok" -> OkResult("")
                          [] v.tag = "Err" -> ErrResult(v.error)
                          [] OTHER -> result
    /\ UNCHANGED <<maker, overflow_checks, candidates, password, overwrite_count,
                   numbers, overwrite_chars, classify, overwrite_indexes, drew>>
    /\ UNCHANGED cli_vars

NextValidate == ValidateCall

SpecValidate == InitValidate /\ [][NextValidate]_vars

----------------------------------------------------------------------------
(* Properties *)

\* generate has come to an end: it returned Ok or Err, or it panicked
Terminated == pc \in {"returned", "panicked"}

\* the positions of buf that hold an entry of c.candidates
PositionsFrom(buf, c) ==
    {i \in 1..Len(buf) : \E j \in 1..Len(c.candidates) : buf[i] = c.candidates[j]}

AllClassifiers(m) == <<m.lowercase, m.uppercase, m.number, m.symbol>> \o m.others

AllMinimumsZero(m) ==
    \A k \in 1..Len(AllClassifiers(m)) : AllClassifiers(m)[k].minimum_count = 0

RECURSIVE Exceeds(_, _)
\* the exact (unbounded) sum of mins is greater than budget
Exceeds(mins, budget) ==
    IF mins = <<>> THEN FALSE
    ELSE IF Head(mins) > budget THEN TRUE
         ELSE Exceeds(Tail(mins), budget - Head(mins))

MinimumCounts(m) ==
    [k \in 1..Len(AllClassifiers(m)) |-> AllClassifiers(m)[k].minimum_count]

\* C1: minimum-count invariant: a password returned by generate has, for
\* every classifier c (named or other), at least c.minimum_count positions
\* whose entry is a member of c.candidates.
MinimumCountInvariant ==
    result.tag = "Ok" =>
        \A k \in 1..Len(AllClassifiers(maker)) :
            Cardinality(PositionsFrom(password, AllClassifiers(maker)[k]))
                >= AllClassifiers(maker)[k].minimum_count

\* a password of two positions, one claimed by uppercase and one by lowercase
MinimumCountWitness ==
    /\ result.tag = "Ok"
    /\ maker.uppercase.minimum_count = 1
    /\ maker.lowercase.minimum_count = 1
    /\ Len(password) = 2
    /\ Cardinality(PositionsFrom(password, maker.uppercase)) = 1
    /\ Cardinality(PositionsFrom(password, maker.lowercase)) = 1

\* C2: exclusion invariant: with exclude_similar set, no position of a
\* password returned by generate holds one of i, l, 1, o, 0, O.
ExclusionInvariant ==
    (result.tag = "Ok" /\ maker.exclude_similar) =>
        \A i \in 1..Len(password) : password[i] \notin Similar

\* C3: length invariant: for a maker that validate accepts and whose
\* assembled pool is non-empty, generate returns Ok with a buffer of exactly
\* length entries, and the overwrite phase never changes the number of entries.
LengthInvariant ==
    (Validate(maker, overflow_checks).tag = "Ok" /\ Candidates(maker) # <<>>) =>
        /\ Terminated => (pc = "returned" /\ result.tag = "Ok"
                          /\ Len(password) = maker.length)
        /\ pc \in {"unique", "drain", "replace"} => Len(password) = maker.length

\* C4: validate returns an error if and only if some classifier is empty
\* with a positive minimum count or the sum of all minimum counts is greater
\* than length.
ValidateRejectsExactly ==
    (Validate(maker, overflow_checks).tag = "Err") <=>
        \/ \E k \in 1..Len(AllClassifiers(maker)) :
              IsEmptyWithMinimum(AllClassifiers(maker)[k])
        \/ Exceeds(MinimumCounts(maker), maker.length)

NoCandidatesOutcome ==
    (/\ Terminated
     /\ maker.length > 0
     /\ Candidates(maker) = <<>>
     /\ Validate(maker, overflow_checks).tag = "Ok") =>
        /\ pc = "returned"
        /\ result = ErrResult(NoCandidatesError)
        /\ result.error.kind \notin {"EmptyWithMinimum", "TotalMinimumGreaterThanLength"}

\* the no-candidates error was returned although every minimum count is 0
NoCandidatesWitness ==
    /\ pc = "returned"
    /\ maker.length > 0
    /\ AllMinimumsZero(maker)
    /\ result.tag = "Err"
    /\ result.error.kind = "NoCandidates"

\* C7: a generate call that returns an error has drawn nothing from the
\* random source and returns no password content; no draw happens before
\* validation and the empty-pool check are done.
NoDrawBeforeError ==
    /\ result.tag = "Err" =>
          (~drew /\ password = <<>> /\ numbers = <<>> /\ result.password = "")
    /\ pc \in {"generate", "candidates"} => ~drew

\* the total-minimum error was returned for a maker that has candidates
NoDrawWitness ==
    /\ pc = "returned"
    /\ result.tag = "Err"
    /\ result.error.kind = "TotalMinimumGreaterThanLength"
    /\ Candidates(maker) # <<>>
    /\ maker.length > 0

\* C8: generate returns exactly validate's error whenever validate fails,
\* also when the assembled pool is empty: it goes past validation, and
\* returns Ok, only for makers validate accepts.
ValidationErrorPropagated ==
    /\ pc = "candidates" => Validate(maker, overflow_checks).tag = "Ok"
    /\ Terminated =>
          LET v == Validate(maker, overflow_checks)
          IN  /\ v.tag = "Err" => (pc = "returned" /\ result = ErrResult(v.error))
              /\ result.tag = "Ok" => v.tag = "Ok"

\* a maker that is invalid and has an empty pool reported the validation error
ValidationErrorWitness ==
    /\ pc = "returned"
    /\ Candidates(maker) = <<>>
    /\ result.tag = "Err"
    /\ result.error.kind = "EmptyWithMinimum"

\* the number of candidates of the classifiers before the k-th one
Offset(cs, k) ==
    LET lens == [j \in 1..(k - 1) |-> Len(cs[j].candidates)]
        F[n \in 0..(k - 1)] == IF n = 0 THEN 0 ELSE F[n - 1] + lens[n]
    IN  F[k - 1]

\* C10: with exclude_similar false the assembled pool is the candidates of
\* lowercase, uppercase, number, symbol and each others classifier in
\* declaration order, entry by entry, followed by one space entry when
\* include_whitespace_in_candidate is set.
CandidatesOrder ==
    (~maker.exclude_similar /\ pc \in {"generate", "fill"}) =>
        LET pool == Candidates(maker)
            cs == AllClassifiers(maker)
            merged == Offset(cs, Len(cs) + 1)
        IN  /\ Len(pool) = merged
                  + (IF maker.include_whitespace_in_candidate THEN 1 ELSE 0)
            /\ \A k \in 1..Len(cs) : \A j \in 1..Len(cs[k].candidates) :
                   pool[Offset(cs, k) + j] = cs[k].candidates[j]
            /\ maker.include_whitespace_in_candidate => pool[Len(pool)] = Whitespace
            /\ pc = "fill" => candidates = pool

\* generate assembled a pool out of every classifier and the space entry
CandidatesOrderWitness ==
    /\ pc = "fill"
    /\ ~maker.exclude_similar
    /\ candidates = <<"a", "l", "O", "1", "#", "lo", "lo", " ">>

\* the positions of the merged pool that exclude_similar keeps
KeptPositions(merged) ==
    {i \in 1..Len(merged) : merged[i] \notin {"i", "l", "1", "o", "0", "O"}}

\* C11: with exclude_similar set, the assembled pool is the merged pool
\* (space entry included) without exactly the entries that are string-equal
\* to one of i, l, 1, o, 0, O: every other entry, also one of several
\* characters that contains one of these, is kept in its place and as often
\* as it occurs.
SimilarExcludedExactly ==
    (maker.exclude_similar /\ pc \in {"generate", "fill"}) =>
        LET merged == Candidates([maker EXCEPT !.exclude_similar = FALSE])
            kept == KeptPositions(merged)
            pool == Candidates(maker)
        IN  /\ Len(pool) = Cardinality(kept)
            /\ \A i \in kept :
                   pool[Cardinality({j \in kept : j <= i})] = merged[i]
            /\ pc = "fill" => candidates = pool

\* the pool lost l, O and 1 and kept both lo entries and the space entry
SimilarExcludedWitness ==
    /\ pc = "fill"
    /\ maker.exclude_similar
    /\ candidates = <<"a", "#", "lo", "lo", " ">>

\* the entries of the configured pools of m
PoolEntries(m) ==
    UNION {{AllClassifiers(m)[k].candidates[j] :
                j \in 1..Len(AllClassifiers(m)[k].candidates)} :
           k \in 1..Len(AllClassifiers(m))}

\* C12: every position of a password returned by generate holds an entry of
\* some classifier's candidates, or the space entry when
\* include_whitespace_in_candidate is set; a space appears only when that
\* setting is on or a pool holds it.
EntriesFromPools ==
    result.tag = "Ok" =>
        \A i \in 1..Len(password) :
            \/ password[i] \in PoolEntries(maker)
            \/ password[i] = Whitespace /\ maker.include_whitespace_in_candidate

\* a returned password with the space entry next to an entry of a pool, from
\* a maker that has empty classifiers
EntriesFromPoolsWitness ==
    /\ result.tag = "Ok"
    /\ maker.include_whitespace_in_candidate
    /\ maker.number.candidates = <<>>
    /\ Len(password) = 2
    /\ password[1] = Whitespace
    /\ password[2] \in PoolEntries(maker)

\* C14: generate never faults: it ends by returning, never in a panic of the
\* overwrite phase (replace_characters out of range, a draw from an empty
\* pool, a drain of more indexes than were drawn).
GenerateNeverFaults == pc # "panicked"

\* generate panics only for makers whose minimum counts leave the u32 range
FaultsOnlyOnOverflow == pc = "panicked" => TotalMin(maker).overflow

\* C20: unique_random_numbers(count, range) returns exactly count values,
\* pairwise distinct, each inside range, in the order they were first drawn,
\* whatever is drawn: each draw either leaves the list as it is or appends a
\* value of the range that was not in it; with count = 0 the empty list is
\* returned without a draw.
UniqueRandomNumbers ==
    [][pc = "unique" =>
         /\ pc' = "unique" =>
                \/ numbers' = numbers
                \/ \E num \in 0..(Len(password) - 1) :
                       /\ \A i \in 1..Len(numbers) : numbers[i] # num
                       /\ numbers' = Append(numbers, num)
         /\ pc' = "drain" =>
                /\ overwrite_chars' = numbers
                /\ Len(overwrite_chars') = overwrite_count
                /\ \A i, j \in 1..Len(overwrite_chars') :
                       i # j => overwrite_chars'[i] # overwrite_chars'[j]
                /\ \A i \in 1..Len(overwrite_chars') :
                       overwrite_chars'[i] \in 0..(Len(password) - 1)
         /\ overwrite_count = 0 =>
                (pc' = "drain" /\ overwrite_chars' = <<>> /\ drew' = drew)]_vars

\* two indexes were returned in the order drawn, the larger one first
UniqueRandomNumbersWitness ==
    /\ pc = "drain"
    /\ classify = 1
    /\ overwrite_count = 2
    /\ overwrite_chars = <<1, 0>>

\* the grapheme clusters of the byte strings given as candidates, written
\* out per encoding (U+FFFD stands in for a malformed byte)
ExpectedClusters(bytes, encoding) ==
    CASE bytes = <<>> -> <<>>
      [] bytes = <<79>> -> <<"O">>
      [] bytes = <<35>> -> <<"#">>
      [] bytes = <<35, 35>> -> <<"#", "#">>
      [] bytes = <<49, 131>> -> <<"1", "\\u{fffd}">>
      [] bytes = <<97, 108, 204, 131>> /\ encoding = "utf-8" ->
            <<"a", "l\\u{303}">>
      [] bytes = <<97, 108, 204, 131>> /\ encoding = "shift_jis" ->
            <<"a", "l", "\\u{ff8c}", "\\u{fffd}">>
      [] bytes = <<111, 204, 131>> /\ encoding = "utf-8" -> <<"o\\u{303}">>
      [] bytes = <<111, 204, 131>> /\ encoding = "shift_jis" ->
            <<"o", "\\u{ff8c}", "\\u{fffd}">>

\* the arguments of the four named classifiers, by the maker's field
NamedArgs(a) ==
    [uppercase |-> [candidates |-> a.uppercase_candidates,
                    minimum_count |-> a.uppercase_minimum_count],
     lowercase |-> [candidates |-> a.lowercase_candidates,
                    minimum_count |-> a.lowercase_minimum_count],
     number |-> [candidates |-> a.number_candidates,
                 minimum_count |-> a.number_minimum_count],
     symbol |-> [candidates |-> a.symbol_candidates,
                 minimum_count |-> a.symbol_minimum_count]]

\* C15: for each of the four named classifiers set_classifiers stores the
\* decoded candidates split into grapheme clusters, in order, with the
\* requested minimum count when that list is non-empty and with minimum
\* count 0 when it is empty, whatever was requested.
NamedClassifiersSet ==
    (cli = "set_returned" /\ set_result.tag = "Ok") =>
        \A f \in {"uppercase", "lowercase", "number", "symbol"} :
            LET given == NamedArgs(args)[f]
                expected == ExpectedClusters(given.candidates, args.encoding)
            IN  /\ maker[f].candidates = expected
                /\ maker[f].minimum_count =
                      (IF expected = <<>> THEN 0 ELSE given.minimum_count)

\* lowercase was given as a, l, U+0303 with minimum count 2 and uppercase as
\* the empty string with minimum count 2
NamedClassifiersWitness ==
    /\ cli = "set_returned"
    /\ set_result.tag = "Ok"
    /\ args.lowercase_minimum_count = 2
    /\ maker.lowercase = Classifier(<<"a", "l\\u{303}">>, 2)
    /\ args.uppercase_minimum_count = 2
    /\ maker.uppercase = Classifier(<<>>, 0)

\* C16: set_classifiers builds others with as many classifiers as the longer
\* of the two lists --other-candidates and --other-minimum-count, the i-th
\* candidates with the i-th minimum count: a missing minimum count is 0, a
\* missing candidates string is an empty pool that keeps its minimum count.
OthersPaired ==
    (cli = "set_returned" /\ set_result.tag = "Ok") =>
        LET oc == IF args.other_candidates = None THEN <<>>
                  ELSE args.other_candidates.value
            om == IF args.other_minimum_count = None THEN <<>>
                  ELSE args.other_minimum_count.value
        IN  /\ Len(maker.others) >= Len(oc)
            /\ Len(maker.others) >= Len(om)
            /\ Len(maker.others) \in {Len(oc), Len(om)}
            /\ \A i \in 1..Len(maker.others) :
                  /\ maker.others[i].candidates =
                        (IF i <= Len(oc) THEN ExpectedClusters(oc[i], args.encoding)
                         ELSE <<>>)
                  /\ maker.others[i].minimum_count =
                        (IF i <= Len(om) THEN om[i] ELSE 0)

\* two candidates strings, the first one empty, met three minimum counts
OthersPairedWitness ==
    /\ cli = "set_returned"
    /\ set_result.tag = "Ok"
    /\ maker.others = <<Classifier(<<>>, 1), Classifier(<<"#", "#">>, 2),
                        Classifier(<<>>, 3)>>

\* C19: with an unsupported encoding label set_classifiers returns the error
\* 'Unsupported encoding: <label>' and leaves the maker as it was; it returns
\* an error in no other case, so never after a classifier was assigned.
UnsupportedEncodingLeavesMaker ==
    cli = "set_returned" =>
        /\ args.encoding \notin {"utf-8", "shift_jis"} =>
              /\ set_result.tag = "Err"
              /\ set_result.error.kind = "UnsupportedEncoding"
              /\ set_result.error.name = args.encoding
        /\ set_result.tag = "Err" =>
              /\ args.encoding \notin {"utf-8", "shift_jis"}
              /\ maker = NewMaker(args)

\* the call failed on the label although candidates were given for uppercase
UnsupportedEncodingWitness ==
    /\ cli = "set_returned"
    /\ set_result.tag = "Err"
    /\ args.encoding = "invalid"
    /\ args.uppercase_candidates = <<79>>
    /\ args.other_candidates # None
    /\ maker = NewMaker(args)

\* C13: generate (and validate and candidates within it) leaves every field
\* of the maker as it is, whether it returns Ok or Err, so that the successive
\* calls of the loop of generate_passwords all run against the same maker.
MakerUnchangedByGenerate ==
    [][(cli \in {"loop", "generating"}) => (maker' = maker)]_vars

\* the second call of generate on one maker is under way
MakerUnchangedWitness ==
    /\ cli = "generating"
    /\ pc = "fill"
    /\ Len(passwords) = 1
    /\ maker.length = 2
    /\ maker.uppercase = Classifier(<<"O">>, 1)

\* C17: generate_passwords is all-or-nothing: it returns Ok with exactly
\* args.count passwords when set_classifiers and every call of generate
\* succeeded, and when set_classifiers or a call of generate failed it returns
\* that error and no password, without a further call.
AllOrNothing ==
    cli = "gp_returned" =>
        /\ gp_result.tag \in {"Ok", "Err"}
        /\ gp_result.tag = "Ok" =>
              /\ Len(gp_result.passwords) = args.count
              /\ set_result.tag = "Ok"
              /\ result.tag # "Err"
        /\ gp_result.tag = "Err" =>
              /\ gp_result.passwords = <<>>
              /\ set_result.tag = "Err" =>
                    (gp_result.error = set_result.error /\ result = NoResult)
              /\ set_result.tag = "Ok" =>
                    (result.tag = "Err" /\ gp_result.error = result.error)
        /\ pc = "idle"

\* two passwords were asked for and two were returned
AllOrNothingWitness ==
    /\ cli = "gp_returned"
    /\ args.count = 2
    /\ gp_result.tag = "Ok"
    /\ Len(gp_result.passwords) = 2
    /\ gp_result.passwords[1] # gp_result.passwords[2]

\* C18: with --completion main writes the completion script to standard
\* output and exits with success; it never calls generate, writes no
\* password and leaves the clipboard alone, also under --clipboard.
CompletionOnly ==
    args.completion # NoShell =>
        /\ cli \in {"main", "exited"}
        /\ pc = "idle"
        /\ ~drew
        /\ passwords = <<>>
        /\ gp_result = NoPasswords
        /\ clipboard = <<>>
        /\ stderr = <<>>
        /\ cli = "main" => stdout = <<>>
        /\ cli = "exited" =>
              /\ stdout = <<[completion |-> args.completion.value]>>
              /\ exit_code = "SUCCESS"

\* the script was written although --clipboard was given
CompletionOnlyWitness ==
    /\ cli = "exited"
    /\ args.completion = Some("zsh")
    /\ args.clipboard
    /\ stdout = <<[completion |-> "zsh"]>>
    /\ exit_code = "SUCCESS"


\* the classifier served k-th by the overwrite phase: uppercase, lowercase,
\* number, symbol, then the others as declared
ClassifierAt(m, k) ==
    CASE k = 1 -> m.uppercase
      [] k = 2 -> m.lowercase
      [] k = 3 -> m.number
      [] k = 4 -> m.symbol
      [] OTHER -> m.others[k - 4]

PoolOf(c) == {c.candidates[j] : j \in 1..Len(c.candidates)}

Distinct(seq) == \A i, j \in 1..Len(seq) : seq[i] = seq[j] => i = j

RECURSIVE ExactTotal(_)
\* the exact (unbounded) sum of mins
ExactTotal(mins) == IF mins = <<>> THEN 0 ELSE Head(mins) + ExactTotal(Tail(mins))

Rewritten(buf) == {i \in 1..Len(buf) : buf[i] # Whitespace}

\* C21: the overwrite phase hands the drawn indexes out in the order
\* uppercase, lowercase, number, symbol, others as declared: the drawn
\* sequence has no repeated index, the classifier served k-th takes exactly the
\* first minimum_count indexes of what is left and leaves the rest, every
\* iteration of replace_characters changes only the position at the head of
\* the classifier's indexes, to an entry of that classifier's own candidates,
\* and when the phase returns all classifiers were served and no drawn index
\* is left over.
PartitionInOrder ==
    [][/\ (pc = "unique" /\ pc' = "drain") =>
              (classify' = 1 /\ Distinct(overwrite_chars'))
       /\ (pc = "drain" /\ pc' = "replace") =>
              LET n == ClassifierAt(maker, classify).minimum_count
              IN  /\ n <= Len(overwrite_chars)
                  /\ overwrite_indexes' = SubSeq(overwrite_chars, 1, n)
                  /\ overwrite_chars' = SubSeq(overwrite_chars, n + 1, Len(overwrite_chars))
       /\ (pc = "replace" /\ pc' = "replace") =>
              LET at == Head(overwrite_indexes) + 1
              IN  /\ Len(password') = Len(password)
                  /\ password'[at] \in PoolOf(ClassifierAt(maker, classify))
                  /\ \A i \in 1..Len(password) : i # at => password'[i] = password[i]
                  /\ overwrite_indexes' = Tail(overwrite_indexes)
       /\ (pc = "replace" /\ pc' = "drain") =>
              (overwrite_indexes = <<>> /\ classify' = classify + 1)
       /\ (pc' = "overwritten") =>
              (classify = 5 + Len(maker.others) /\ overwrite_chars = <<>>)]_vars

PartitionWitness ==
    /\ pc = "overwritten"
    /\ maker.uppercase.minimum_count = 1
    /\ maker.lowercase.minimum_count = 1
    /\ password = <<"l", "O">>

\* C22: when length equals the sum of the minimum counts, the buffer the
\* overwrite phase returns holds no entry of the initial fill and, for every
\* classifier, exactly minimum_count entries of that classifier's pool.
ExactCounts ==
    (pc = "overwritten" /\ ExactTotal(MinimumCounts(maker)) = maker.length) =>
        /\ Rewritten(password) = 1..maker.length
        /\ \A k \in 1..Len(AllClassifiers(maker)) :
              Cardinality(PositionsFrom(password, AllClassifiers(maker)[k]))
                  = AllClassifiers(maker)[k].minimum_count

ExactCountsWitness ==
    /\ pc = "overwritten"
    /\ maker.length = 2
    /\ Len(maker.others) = 1
    /\ password = <<"lo", "#">>

\* C23: a classifier with minimum_count = 0 writes nothing even when its pool
\* is not empty: in the buffer the overwrite phase returns, exactly (sum of
\* the minimum counts) positions were rewritten, none of them holds an entry
\* of a classifier with minimum_count = 0, and the others hold the initial fill.
ZeroMinimumWritesNothing ==
    (pc = "overwritten") =>
        /\ Cardinality(Rewritten(password)) = ExactTotal(MinimumCounts(maker))
        /\ \A k \in 1..Len(AllClassifiers(maker)) :
              AllClassifiers(maker)[k].minimum_count = 0 =>
                  PositionsFrom(password, AllClassifiers(maker)[k]) = {}

ZeroMinimumWitness ==
    /\ pc = "overwritten"
    /\ maker.lowercase = Classifier(<<"a", "l">>, 0)
    /\ maker.symbol = Classifier(<<"#">>, 0)
    /\ password = <<Whitespace, "O">>

\* C26: with validation bypassed, all pools non-empty and minimum counts that
\* sum to more than length, the overwrite phase does not fault.
ClampKeepsOverwriteSafe ==
    (/\ \A k \in 1..Len(AllClassifiers(maker)) :
            AllClassifiers(maker)[k].candidates # <<>>
     /\ ExactTotal(MinimumCounts(maker)) > maker.length
     /\ cli = "library") =>
        pc # "panicked"


OutOfRange == \E k \in 1..Len(overwrite_indexes) : overwrite_indexes[k] >= Len(password)

\* C25: a call of replace_characters whose list holds an index at or beyond
\* the buffer length never returns: the iteration that takes that index
\* panics, and until then (or until an earlier panic) the index stays in the list.
OutOfRangePanics ==
    [][(cli = "library" /\ pc = "replace" /\ OutOfRange) =>
          /\ pc' \in {"replace", "panicked"}
          /\ pc' = "replace" => OutOfRange'
          /\ Head(overwrite_indexes) >= Len(password) => pc' = "panicked"]_vars

OutOfRangeWitness ==
    /\ pc = "panicked"
    /\ Len(password) = 2
    /\ overwrite_indexes = <<2>>
    /\ password[1] = "O"


OffendingOthers(m) == {i \in 1..Len(m.others) : IsEmptyWithMinimum(m.others[i])}

SomeOffender(m) ==
    \E k \in 1..Len(AllClassifiers(m)) : IsEmptyWithMinimum(AllClassifiers(m)[k])

\* C28: validate totals the minimum counts exactly: a maker without an empty
\* classifier with a minimum whose true total minimum is greater than length is
\* rejected with the total-minimum-greater-than-length error, whatever u32
\* values the minimum counts have, and the call does not fault.
TotalMinimumExact ==
    (/\ pc \in {"validated", "panicked"}
     /\ cli = "library"
     /\ ~SomeOffender(maker)
     /\ Exceeds(MinimumCounts(maker), maker.length)) =>
        /\ pc = "validated"
        /\ result.tag = "Err"
        /\ result.error.kind = "TotalMinimumGreaterThanLength"

\* the error validate is expected to report for a maker with an empty
\* classifier that has a positive minimum count
ExpectedEmptyError(m) ==
    IF OffendingOthers(m) # {}
    THEN LET i == CHOOSE j \in OffendingOthers(m) : \A k \in OffendingOthers(m) : j <= k
         IN  EmptyError("Other characters at index", i - 1, m.others[i].minimum_count)
    ELSE IF IsEmptyWithMinimum(m.uppercase)
         THEN EmptyError("Uppercases", 0, m.uppercase.minimum_count)
    ELSE IF IsEmptyWithMinimum(m.lowercase)
         THEN EmptyError("Lowercases", 0, m.lowercase.minimum_count)
    ELSE IF IsEmptyWithMinimum(m.number)
         THEN EmptyError("Numbers", 0, m.number.minimum_count)
    ELSE EmptyError("Symbols", 0, m.symbol.minimum_count)

\* C30: validate reports one error, in a fixed precedence: the first
\* offending others classifier, else the first offending one of uppercase,
\* lowercase, number, symbol; the total-minimum error is reported only when
\* no classifier is empty with a positive minimum count.
ValidatePrecedence ==
    (pc \in {"validated", "panicked"} /\ cli = "library" /\ SomeOffender(maker)) =>
        /\ pc = "validated"
        /\ result = ErrResult(ExpectedEmptyError(maker))

ValidatePrecedenceWitness ==
    /\ pc = "validated"
    /\ OffendingOthers(maker) = {1, 2}
    /\ IsEmptyWithMinimum(maker.uppercase)
    /\ IsEmptyWithMinimum(maker.symbol)
    /\ Exceeds(MinimumCounts(maker), maker.length)
    /\ result.error.index = 0
    /\ result.error.name = "Other characters at index"


\* C27: under fair draws every call of generate comes to an end by returning
\* Ok or Err.
GenerateEventuallyReturns == <>(pc = "returned")

\* under fair draws every call of generate comes to an end, by a return or a
\* panic
GenerateEventuallyEnds == <>Terminated


\* the indexes of the buffer that the draw loop has not drawn yet
NotDrawn == {i \in 0..(Len(password) - 1) : \A k \in 1..Len(numbers) : numbers[k] # i}

\* C29: no position is pinned: whenever the draw loop of the overwrite phase
\* still has an index to draw, every index of the buffer not drawn yet can be
\* the next one of the drawn sequence (so every index can come at the place
\* of the sequence that any classifier with a positive minimum count is
\* served from), and when fewer indexes are drawn than the buffer has
\* entries, for every index another one can be drawn in its place (so every
\* index can keep its initial entry).
NoPinnedPosition ==
    (pc = "unique" /\ Len(numbers) < overwrite_count) =>
        /\ \A i \in NotDrawn : ENABLED (UniqueDraw /\ numbers' = Append(numbers, i))
        /\ overwrite_count < Len(password) =>
              \A i \in NotDrawn : \E j \in NotDrawn \ {i} :
                  ENABLED (UniqueDraw /\ numbers' = Append(numbers, j))

NoPinnedPositionWitness ==
    /\ pc = "overwritten"
    /\ maker.uppercase.minimum_count = 0
    /\ maker.number = Classifier(<<"1">>, 1)
    /\ password = <<Whitespace, "1">>

====
